---- MODULE Spec2Model ----
(***************************************************************************)
(* Aetheric Engine client: the streaming message framer (MessageParser in  *)
(* utils.js) and the session controller (AethericEngineClient in           *)
(* server.js).                                                             *)
(*                                                                         *)
(* Bytes are integers 0..255, buffers and strings are sequences of them.   *)
(* Indices are 1-based; 0 stands for JavaScript's -1 ("not found").        *)
(***************************************************************************)
EXTENDS Integers, Sequences, FiniteSets, TLC

\* ------------------------------------------------------------------ bytes
DOLLAR == 36
SEMI == 59
TAG_AA == 170
TAG_BB == 187
PRINT_LO == 32
PRINT_HI == 126
HEADER_LEN == 6
MIN_ASCII_LEN == 7

Tags == {TAG_AA, TAG_BB}

\* ----------------------------------------------------------------- bounds
\* segments per input stream (after an optional leading noise byte)
MaxSegs == 2
\* longest payload of the single-text-record streams
MaxTextLen == 6
\* longest payload of the single-binary-record streams
MaxBinLen == 2
\* the feed counter stops counting here
FeedsCap == 3
\* longest arbitrary byte string fed to the parser
MaxRawLen == 5
\* connections opened plus 'data' events delivered in one run of the client
MaxEvents == 4
\* this.targetMessageCount (1000 in the constructor), scaled down
TargetMessageCount == 2
\* the statistics period of processMessage (50 in the code), scaled down
StatsEvery == 3
\* inserts the database rejects in one run of the client
MaxFailures == 1

\* ------------------------------------------------------- buffer primitives
\* Buffer.slice(from) with a 0-based start: drop the first n bytes.
Drop(buf, n) == SubSeq(buf, n + 1, Len(buf))

\* Buffer.toString("ascii"): the high bit of every byte is cleared.
toAsciiString(buf) == [i \in 1..Len(buf) |-> buf[i] % 128]

\* String.indexOf(c, from): first index >= from holding c, 0 when none.
indexOf(str, c, from) ==
  LET hits == {i \in from..Len(str) : str[i] = c}
  IN IF hits = {} THEN 0 ELSE CHOOSE i \in hits : \A j \in hits : i <= j

\* Buffer.indexOf(bytes): first index where the byte sequence occurs, 0 when none.
bufferIndexOf(buf, pat) ==
  LET hits == {i \in 1..(Len(buf) - Len(pat) + 1) :
                 SubSeq(buf, i, i + Len(pat) - 1) = pat}
  IN IF hits = {} THEN 0 ELSE CHOOSE i \in hits : \A j \in hits : i <= j

\* ------------------------------------------------------ processAsciiMessage
\* Mutant of InvalidPayloadChar: the range test excludes its end points.
InvalidPayloadCharStrict(code) ==
  code <= PRINT_LO \/ code >= PRINT_HI \/ code = DOLLAR \/ code = SEMI

\* A payload byte the validation loop rejects.
InvalidPayloadChar(code) ==
  code < PRINT_LO \/ code > PRINT_HI \/ code = DOLLAR \/ code = SEMI

\* Returns [ok |-> FALSE] where the code throws, else the message record.
processAsciiMessage(rawMessage) ==
  IF Len(rawMessage) = 0 THEN [ok |-> FALSE]
  ELSE IF rawMessage[1] # DOLLAR \/ rawMessage[Len(rawMessage)] # SEMI
    THEN [ok |-> FALSE]
  ELSE IF Len(rawMessage) < MIN_ASCII_LEN THEN [ok |-> FALSE]
  ELSE LET payload == SubSeq(rawMessage, 2, Len(rawMessage) - 1)
       IN IF \E i \in 1..Len(payload) : InvalidPayloadChar(payload[i])
            THEN [ok |-> FALSE]
            ELSE [ok |-> TRUE,
                  msg |-> [type |-> "ascii", raw |-> rawMessage,
                           payload |-> payload, size |-> Len(payload)]]

\* ----------------------------------------------------- processBinaryMessage
\* The 5-byte little-endian size, sum of sizeBytes[i] * 256^i, is kept as two
\* limbs (value = SizeLow + 2^24 * SizeHigh) so that every intermediate stays
\* inside the checker's integers.
SizeLow(buffer) == buffer[2] + buffer[3] * 256 + buffer[4] * 65536

\* Mutant of SizeHigh: the fifth length byte is left out.
SizeHighFourBytes(buffer) == buffer[5]

SizeHigh(buffer) == buffer[5] + buffer[6] * 256

\* Mutant of InsufficientPayload: <= in place of <.
InsufficientPayloadOffByOne(buffer) ==
  SizeHigh(buffer) > 0 \/ Len(buffer) <= HEADER_LEN + SizeLow(buffer)

\* buffer.length < 6 + payloadSize
InsufficientPayload(buffer) ==
  SizeHigh(buffer) > 0 \/ Len(buffer) < HEADER_LEN + SizeLow(buffer)

\* Mutant of processBinaryMessage: the payload slice stops one byte early.
processBinaryMessageShortSlice(buffer) ==
  IF Len(buffer) < HEADER_LEN THEN [ok |-> FALSE]
  ELSE IF buffer[1] \notin Tags THEN [ok |-> FALSE]
  ELSE IF InsufficientPayload(buffer) THEN [ok |-> FALSE]
  ELSE LET payloadSize == SizeLow(buffer)
       IN [ok |-> TRUE,
           msg |-> [type |-> "binary", header |-> buffer[1],
                    size |-> payloadSize,
                    payload |-> SubSeq(buffer, HEADER_LEN + 1,
                                       HEADER_LEN + payloadSize - 1),
                    totalLength |-> HEADER_LEN + payloadSize]]

processBinaryMessage(buffer) ==
  IF Len(buffer) < HEADER_LEN THEN [ok |-> FALSE]
  ELSE IF buffer[1] \notin Tags THEN [ok |-> FALSE]
  ELSE IF InsufficientPayload(buffer) THEN [ok |-> FALSE]
  ELSE LET payloadSize == SizeLow(buffer)
       IN [ok |-> TRUE,
           msg |-> [type |-> "binary", header |-> buffer[1],
                    size |-> payloadSize,
                    payload |-> SubSeq(buffer, HEADER_LEN + 1, HEADER_LEN + payloadSize),
                    totalLength |-> HEADER_LEN + payloadSize]]

\* ------------------------------------------------- MessageParser.parseMessages
\* Mutant of RemoveAscii: the record is overwritten with 'x' bytes, not cut out.
RemoveAsciiOverwrites(buffer, bufferStr, asciiMessage) ==
  LET messageStart == bufferIndexOf(bufferStr, asciiMessage)
  IN [i \in 1..Len(buffer) |->
        IF i >= messageStart /\ i < messageStart + Len(asciiMessage)
          THEN 120 ELSE buffer[i]]

\* Removal of an extracted text record from the buffer (utils.js 156-167):
\* by byte search, else by string replacement on the decoded buffer.
RemoveAscii(buffer, bufferStr, asciiMessage) ==
  LET messageStart == bufferIndexOf(buffer, asciiMessage)
      strStart == bufferIndexOf(bufferStr, asciiMessage)
  IN IF messageStart # 0
       THEN SubSeq(buffer, 1, messageStart - 1)
              \o Drop(buffer, messageStart - 1 + Len(asciiMessage))
       ELSE SubSeq(bufferStr, 1, strStart - 1)
              \o Drop(bufferStr, strStart - 1 + Len(asciiMessage))

\* The binary branch is entered (utils.js 120-123).
BinaryCandidate(buffer) == Len(buffer) >= HEADER_LEN /\ buffer[1] \in Tags

\* Mutant of WaitForMore: a tag at the head of the buffer is not waited for.
WaitForMoreNoTag(buffer, startIndex) == startIndex # 0

\* The wait-for-more-data test of utils.js 181-185.
WaitForMore(buffer, startIndex) ==
  startIndex # 0 \/ (Len(buffer) > 0 /\ buffer[1] \in Tags)

\* One pass of the while loop on state st = [buffer, messages, messageCount,
\* warnings]; sets done where the code breaks out of the loop.
ParseStep(st) ==
  LET buffer == st.buffer
  IN IF BinaryCandidate(buffer)
       THEN LET result == processBinaryMessage(buffer)
            IN IF result.ok
                 THEN [st EXCEPT !.buffer = Drop(buffer, result.msg.totalLength),
                                 !.messages = Append(@, result.msg),
                                 !.messageCount = @ + 1]
                 ELSE [st EXCEPT !.buffer = Drop(buffer, 1),
                                 !.warnings = @ + 1]
       ELSE LET bufferStr == toAsciiString(buffer)
                startIndex == indexOf(bufferStr, DOLLAR, 1)
                endIndex == IF startIndex = 0 THEN 0
                            ELSE indexOf(bufferStr, SEMI, startIndex)
                complete == startIndex # 0 /\ endIndex # 0 /\ endIndex > startIndex
                asciiMessage == SubSeq(bufferStr, startIndex, endIndex)
                result == IF complete THEN processAsciiMessage(asciiMessage)
                          ELSE [ok |-> FALSE]
                warned == IF complete /\ ~result.ok THEN 1 ELSE 0
            IN IF result.ok
                 THEN [st EXCEPT !.buffer = RemoveAscii(buffer, bufferStr, asciiMessage),
                                 !.messages = Append(@, result.msg),
                                 !.messageCount = @ + 1]
                 ELSE IF WaitForMore(buffer, startIndex)
                   THEN [st EXCEPT !.warnings = @ + warned, !.done = TRUE]
                   ELSE [st EXCEPT !.buffer = Drop(buffer, 1),
                                   !.warnings = @ + warned]

RECURSIVE ParseLoop(_)
ParseLoop(st) ==
  IF Len(st.buffer) = 0 \/ st.done THEN st ELSE ParseLoop(ParseStep(st))

\* parseMessages on a parser holding `buffer` and `count`: the buffer and
\* messageCount it leaves, the messages it returns, the console.warn calls made.
parseMessages(buffer, count) ==
  ParseLoop([buffer |-> buffer, messages |-> <<>>, messageCount |-> count,
             warnings |-> 0, done |-> FALSE])

\* Mutant of addData: the chunk is put in front of the buffer.
addDataPrepends(buffer, data) == data \o buffer

\* MessageParser.addData
addData(buffer, data) == buffer \o data

\* ---------------------------------------------------------- the wire format
\* '$' payload ';'
EncodeText(payload) == <<DOLLAR>> \o payload \o <<SEMI>>

\* 5-byte little-endian length field (n < 2^24 here)
LengthField(n) == <<n % 256, (n \div 256) % 256, (n \div 65536) % 256, 0, 0>>

\* tag, length field, payload
EncodeBinary(tag, payload) == <<tag>> \o LengthField(Len(payload)) \o payload

\* A segment of the peer's stream: a text record, a binary record, a noise
\* byte run, a delimited but malformed text record, or arbitrary bytes.
TextSeg(p) == [kind |-> "text", payload |-> p]
BinarySeg(t, p) == [kind |-> "binary", tag |-> t, payload |-> p]
NoiseSeg(b) == [kind |-> "noise", bytes |-> b]
BadSeg(b) == [kind |-> "bad", bytes |-> b]
RawSeg(b) == [kind |-> "raw", bytes |-> b]

Encode(seg) ==
  CASE seg.kind = "text" -> EncodeText(seg.payload)
    [] seg.kind = "binary" -> EncodeBinary(seg.tag, seg.payload)
    [] OTHER -> seg.bytes

IsRecord(seg) == seg.kind \in {"text", "binary"}

\* The record a valid segment carries, as the parser reports records.
RecordOf(seg) ==
  IF seg.kind = "text"
    THEN [type |-> "ascii", raw |-> EncodeText(seg.payload),
          payload |-> seg.payload, size |-> Len(seg.payload)]
    ELSE [type |-> "binary", header |-> seg.tag, size |-> Len(seg.payload),
          payload |-> seg.payload, totalLength |-> HEADER_LEN + Len(seg.payload)]

RECURSIVE Flatten(_)
Flatten(ss) == IF ss = <<>> THEN <<>> ELSE Encode(Head(ss)) \o Flatten(Tail(ss))

RECURSIVE Records(_)
Records(ss) ==
  IF ss = <<>> THEN <<>>
  ELSE IF IsRecord(Head(ss)) THEN <<RecordOf(Head(ss))>> \o Records(Tail(ss))
  ELSE Records(Tail(ss))

\* ------------------------------------------------------------- input streams
SeqsUpTo(S, lo, hi) == UNION {[1..n -> S] : n \in lo..hi}

\* "abcde", "hello"
Abcde == <<97, 98, 99, 100, 101>>
Hello == <<104, 101, 108, 108, 111>>
\* "$abcd;" (payload too short) and "$ab$de;" (illegal '$' in the payload)
ShortText == <<36, 97, 98, 99, 100, 59>>
DollarText == <<36, 97, 98, 36, 100, 101, 59>>
\* '$', 0xE1, "bcde;": the second byte is 'a' with the high bit set
HighBitText == <<36, 225, 98, 99, 100, 101, 59>>

Segments ==
  {TextSeg(Abcde), TextSeg(Hello),
   BinarySeg(TAG_AA, <<>>), BinarySeg(TAG_BB, <<1>>),
   NoiseSeg(<<120>>), BadSeg(ShortText), BadSeg(DollarText)}

\* payload bytes of the single-record streams
PayloadChars == {32, 60, 126}
BinBytes == {0, 36, 59, 170, 255}
\* bytes of the arbitrary streams: '$', ';', a tag, 'a'
RawBytes == {DOLLAR, SEMI, TAG_AA, 97}

\* Streams of up to MaxSegs segments, bare or behind one leading noise byte;
\* every single text record and every single binary record within the bounds;
\* a text record with a high-bit byte; a binary record whose payload reads as
\* a text record, bare or behind a noise byte; every byte string over
\* RawBytes up to MaxRawLen.
Inputs ==
  {lead \o ss : lead \in {<<>>, <<NoiseSeg(<<120>>)>>},
                ss \in SeqsUpTo(Segments, 0, MaxSegs)}
    \cup {<<TextSeg(p)>> : p \in SeqsUpTo(PayloadChars, 5, MaxTextLen)}
    \cup {<<BinarySeg(t, p)>> : t \in Tags, p \in SeqsUpTo(BinBytes, 0, MaxBinLen)}
    \cup {<<BadSeg(HighBitText)>>}
    \cup {lead \o <<BinarySeg(TAG_AA, EncodeText(Abcde))>> :
            lead \in {<<>>, <<NoiseSeg(<<120>>)>>}}
    \cup {<<RawSeg(b)>> : b \in SeqsUpTo(RawBytes, 1, MaxRawLen)}

\* ------------------------------------------------------------------- state
VARIABLES
  segs,          \* the stream the peer sends, as segments
  fed,           \* bytes of the stream fed to the parser so far
  feeds,         \* feeds so far (counted up to FeedsCap)
  buffer,        \* MessageParser.buffer
  messageCount,  \* MessageParser.messageCount
  emitted,       \* every message parseMessages has returned, in order
  warnings,      \* console.warn calls made by parseMessages
  tcpClient,     \* this.tcpClient: 0 for null, else the socket's number
  collecting,    \* this.collecting
  isConnected,   \* this.isConnected
  stats,         \* this.stats (without startTime)
  sock,          \* per socket: "none", "connecting", "open" or "closed"
  ended,         \* per socket: its writable side is finished (end() or destroy)
  written,       \* per socket: the commands written on it while it lives
  unsent,        \* per socket: writableLength, in commands
  drainWait,     \* sockets carrying the once('drain') listener of stop
  calls,         \* handleTcpData invocations: the messages each has left
  dbQueue,       \* statements handed to the database, oldest first
  rows,          \* the records stored, in storage order
  lastBroadcast, \* type of the latest message broadcast to the dashboards
  crashed,       \* an exception escaped an event listener: the process is gone
  calc           \* the latest length computation: its input and its result

parserVars == <<buffer, messageCount, emitted, warnings>>
feedVars == <<segs, fed, feeds, calc>>
clientVars == <<tcpClient, collecting, isConnected, stats, sock, ended, written,
                unsent, drainWait, calls, dbQueue, rows, lastBroadcast,
                crashed>>
vars == <<feedVars, parserVars, clientVars>>

\* no length computation made yet
NoCalc == [op |-> "none"]

ZeroStats == [totalMessages |-> 0, asciiMessages |-> 0, binaryMessages |-> 0,
              errors |-> 0]

\* new AethericEngineClient()
ClientInit ==
  /\ tcpClient = 0
  /\ collecting = FALSE
  /\ isConnected = FALSE
  /\ stats = ZeroStats
  /\ sock = [i \in 1..MaxEvents |-> "none"]
  /\ ended = [i \in 1..MaxEvents |-> FALSE]
  /\ written = [i \in 1..MaxEvents |-> <<>>]
  /\ unsent = [i \in 1..MaxEvents |-> 0]
  /\ drainWait = {}
  /\ calls = <<>>
  /\ dbQueue = <<>>
  /\ rows = <<>>
  /\ lastBroadcast = "none"
  /\ crashed = FALSE
  /\ calc = NoCalc

stream == Flatten(segs)

\* new MessageParser()
Init ==
  /\ segs \in Inputs
  /\ fed = 0
  /\ feeds = 0
  /\ buffer = <<>>
  /\ messageCount = 0
  /\ emitted = <<>>
  /\ warnings = 0
  /\ ClientInit

\* One chunk of k bytes arrives: addData(chunk) then parseMessages().
Feed(k) ==
  /\ k \in 1..(Len(stream) - fed)
  /\ LET data == SubSeq(stream, fed + 1, fed + k)
         r == parseMessages(addData(buffer, data), messageCount)
     IN /\ buffer' = r.buffer
        /\ messageCount' = r.messageCount
        /\ emitted' = emitted \o r.messages
        /\ warnings' = warnings + r.warnings
  /\ fed' = fed + k
  /\ feeds' = IF feeds < FeedsCap THEN feeds + 1 ELSE feeds
  /\ UNCHANGED <<segs, calc, clientVars>>

Next == \E k \in 1..(MaxSegs * 8 + MaxTextLen + MaxBinLen + 1) : Feed(k)

Spec == Init /\ [][Next]_vars

\* ------------------------------------------------------ AethericEngineClient
\* The fields a handleTcpData invocation may change while it runs.
Cl ==
  [collecting |-> collecting, stats |-> stats, written |-> written,
   unsent |-> unsent, calls |-> calls, dbQueue |-> dbQueue,
   bc |-> lastBroadcast]

\* this.broadcast(type, ...)
broadcast(cl, type) == [cl EXCEPT !.bc = type]

NoItem == [seq |-> 0, type |-> "none", payload |-> <<>>, size |-> 0]

\* this.tcpClient.write(cmd); a write after end() sends nothing.
SocketWrite(cl, cmd) ==
  IF ended[tcpClient] \/ sock[tcpClient] \in {"errored", "closed"} THEN cl
  ELSE [cl EXCEPT !.written[tcpClient] = Append(@, cmd),
                  !.unsent[tcpClient] = @ + 1]

\* Mutant of CheckThreshold: collecting is not cleared when STATUS is sent.
CheckThresholdNoLatch(cl) ==
  IF cl.collecting /\ cl.stats.totalMessages >= TargetMessageCount
    THEN IF tcpClient = 0
           THEN broadcast([cl EXCEPT !.stats.errors = @ + 1], "error")
           ELSE broadcast(SocketWrite(cl, "STATUS"), "status")
    ELSE cl

\* The end of handleTcpData (server.js 339-353). With tcpClient null the
\* write throws after collecting is cleared and the 'data' handler's catch
\* counts the error.
CheckThreshold(cl) ==
  IF cl.collecting /\ cl.stats.totalMessages >= TargetMessageCount
    THEN IF tcpClient = 0
           THEN broadcast([cl EXCEPT !.collecting = FALSE,
                                     !.stats.errors = @ + 1], "error")
           ELSE broadcast(SocketWrite([cl EXCEPT !.collecting = FALSE],
                                      "STATUS"), "status")
    ELSE cl

\* processMessage hands the next message of invocation c to the database.
IssueInsert(cl, c) ==
  [cl EXCEPT !.dbQueue = Append(@, [call |-> c, kind |-> "insert",
                                    item |-> Head(cl.calls[c].msgs),
                                    then |-> "resume"])]

\* The for loop of handleTcpData goes on for invocation c: the next message,
\* or the threshold test when none is left.
Advance(cl, c) ==
  IF cl.calls[c].msgs # <<>> THEN IssueInsert(cl, c) ELSE CheckThreshold(cl)

\* sendStatistics starts: getTotalMessageCount issues both counts at once.
IssueTotalCount(cl, c) ==
  [cl EXCEPT !.dbQueue = @ \o <<[call |-> c, kind |-> "count", item |-> NoItem,
                                 then |-> "none"],
                                [call |-> c, kind |-> "count", item |-> NoItem,
                                 then |-> "ascii"]>>]

IssueCount(cl, c, next) ==
  [cl EXCEPT !.dbQueue = Append(@, [call |-> c, kind |-> "count",
                                    item |-> NoItem, then |-> next])]

Assign(cl) ==
  /\ collecting' = cl.collecting
  /\ stats' = cl.stats
  /\ written' = cl.written
  /\ unsent' = cl.unsent
  /\ calls' = cl.calls
  /\ dbQueue' = cl.dbQueue
  /\ lastBroadcast' = cl.bc

Sockets == 1..MaxEvents
FreeSockets == {i \in Sockets : sock[i] = "none"}

\* The connections opened and the 'data' events delivered so far.
Events == Cardinality(Sockets \ FreeSockets) + Len(calls)

\* The chunks a 'data' event may carry: a text record followed by a binary
\* record, or one noise byte.
ClientChunks ==
  {EncodeText(Hello) \o EncodeBinary(TAG_AA, <<7>>), <<120>>}

\* What processMessage stores of a message, with its emission number.
Item(m, n) == [seq |-> n, type |-> m.type, payload |-> m.payload, size |-> m.size]

\* startTcpConnection
Start ==
  /\ ~crashed
  /\ Events < MaxEvents
  /\ IF tcpClient # 0
       THEN /\ lastBroadcast' = "error"
            /\ UNCHANGED <<feedVars, parserVars, tcpClient, collecting,
                           isConnected, stats, sock, ended, written, unsent,
                           drainWait, calls, dbQueue, rows, crashed>>
       ELSE LET id == CHOOSE i \in FreeSockets : \A j \in FreeSockets : i <= j
            IN /\ tcpClient' = id
               /\ sock' = [sock EXCEPT ![id] = "connecting"]
               /\ buffer' = <<>>
               /\ messageCount' = 0
               /\ collecting' = TRUE
               /\ stats' = ZeroStats
               /\ UNCHANGED <<feedVars, emitted, warnings, isConnected, ended,
                              written, unsent, drainWait, calls, dbQueue, rows,
                              lastBroadcast, crashed>>

\* The connect callback of socket id. With tcpClient null the write throws
\* out of the listener.
Connect(id) ==
  /\ ~crashed
  /\ sock[id] = "connecting"
  /\ sock' = [sock EXCEPT ![id] = "open"]
  /\ isConnected' = TRUE
  /\ IF tcpClient = 0
       THEN /\ crashed' = TRUE
            /\ Assign(Cl)
       ELSE /\ crashed' = FALSE
            /\ Assign(broadcast(SocketWrite(Cl, "AUTH"), "status"))
  /\ UNCHANGED <<feedVars, parserVars, tcpClient, ended, drainWait, rows>>

\* Mutant of Data: records parsed while collecting is off are not stored.
DataStoresOnlyWhileCollecting(id, chunk) ==
  /\ ~crashed
  /\ sock[id] = "open"
  /\ Events < MaxEvents
  /\ LET r == parseMessages(addData(buffer, chunk), messageCount)
         msgs == IF collecting
                   THEN [i \in 1..Len(r.messages) |->
                           Item(r.messages[i], Len(emitted) + i)]
                   ELSE <<>>
         c == Len(calls) + 1
     IN /\ buffer' = r.buffer
        /\ messageCount' = r.messageCount
        /\ emitted' = emitted \o r.messages
        /\ warnings' = warnings + r.warnings
        /\ Assign(Advance([Cl EXCEPT !.calls = Append(@, [msgs |-> msgs])], c))
  /\ UNCHANGED <<feedVars, tcpClient, isConnected, sock, ended, drainWait, rows,
                 crashed>>

\* the 'data' handler of socket id: handleTcpData up to its first await
Data(id, chunk) ==
  /\ ~crashed
  /\ sock[id] = "open"
  /\ Events < MaxEvents
  /\ LET r == parseMessages(addData(buffer, chunk), messageCount)
         msgs == [i \in 1..Len(r.messages) |->
                    Item(r.messages[i], Len(emitted) + i)]
         c == Len(calls) + 1
     IN /\ buffer' = r.buffer
        /\ messageCount' = r.messageCount
        /\ emitted' = emitted \o r.messages
        /\ warnings' = warnings + r.warnings
        /\ Assign(Advance([Cl EXCEPT !.calls = Append(@, [msgs |-> msgs])], c))
  /\ UNCHANGED <<feedVars, tcpClient, isConnected, sock, ended, drainWait, rows,
                 crashed>>

\* The messages handed to handleTcpData whose insert has not completed.
RECURSIVE Unstored(_)
Unstored(cs) ==
  IF cs = <<>> THEN 0 ELSE Len(Head(cs).msgs) + Unstored(Tail(cs))

\* The inserts the database has rejected so far.
Failures == Len(emitted) - Unstored(calls) - Len(rows)

\* Mutant of InsertDone: a rejected insert is counted like a stored one.
InsertDoneCountsFailure(ok) ==
  /\ ~crashed
  /\ dbQueue # <<>>
  /\ Head(dbQueue).kind = "insert"
  /\ ok \/ Failures < MaxFailures
  /\ LET q == Head(dbQueue)
         c == q.call
         cl0 == [Cl EXCEPT !.dbQueue = Tail(@), !.calls[c].msgs = Tail(@)]
         counted ==
           IF q.item.type = "ascii"
             THEN [cl0 EXCEPT !.stats.asciiMessages = @ + 1,
                              !.stats.totalMessages = @ + 1,
                              !.bc = "ascii"]
             ELSE [cl0 EXCEPT !.stats.binaryMessages = @ + 1,
                              !.stats.totalMessages = @ + 1,
                              !.bc = "binary"]
     IN IF ok
          THEN /\ rows' = Append(rows, q.item)
               /\ Assign(IF counted.stats.totalMessages % StatsEvery = 0
                           THEN IssueTotalCount(counted, c)
                           ELSE Advance(counted, c))
          ELSE /\ rows' = rows
               /\ Assign(Advance(broadcast([counted EXCEPT !.stats.errors = @ + 1],
                                           "error"), c))
  /\ UNCHANGED <<feedVars, parserVars, tcpClient, isConnected, sock, ended,
                 drainWait, crashed>>

\* The database finishes the oldest statement, an insert, and the invocation
\* awaiting it resumes: processMessage after its await, then the for loop.
\* The database rejects at most MaxFailures inserts.
InsertDone(ok) ==
  /\ ~crashed
  /\ dbQueue # <<>>
  /\ Head(dbQueue).kind = "insert"
  /\ ok \/ Failures < MaxFailures
  /\ LET q == Head(dbQueue)
         c == q.call
         cl0 == [Cl EXCEPT !.dbQueue = Tail(@), !.calls[c].msgs = Tail(@)]
         counted ==
           IF q.item.type = "ascii"
             THEN [cl0 EXCEPT !.stats.asciiMessages = @ + 1,
                              !.stats.totalMessages = @ + 1,
                              !.bc = "ascii"]
             ELSE [cl0 EXCEPT !.stats.binaryMessages = @ + 1,
                              !.stats.totalMessages = @ + 1,
                              !.bc = "binary"]
     IN IF ok
          THEN /\ rows' = Append(rows, q.item)
               /\ Assign(IF counted.stats.totalMessages % StatsEvery = 0
                           THEN IssueTotalCount(counted, c)
                           ELSE Advance(counted, c))
          ELSE /\ rows' = rows
               /\ Assign(Advance(broadcast([cl0 EXCEPT !.stats.errors = @ + 1],
                                           "error"), c))
  /\ UNCHANGED <<feedVars, parserVars, tcpClient, isConnected, sock, ended,
                 drainWait, crashed>>

\* The database finishes the oldest statement, a count of sendStatistics.
CountDone ==
  /\ ~crashed
  /\ dbQueue # <<>>
  /\ Head(dbQueue).kind = "count"
  /\ LET q == Head(dbQueue)
         cl0 == [Cl EXCEPT !.dbQueue = Tail(@)]
     IN Assign(CASE q.then = "none" -> cl0
                 [] q.then = "ascii" -> IssueCount(cl0, q.call, "binary")
                 [] q.then = "binary" -> IssueCount(cl0, q.call, "resume")
                 [] OTHER -> Advance(broadcast(cl0, "statistics"), q.call))
  /\ UNCHANGED <<feedVars, parserVars, tcpClient, isConnected, sock, ended,
                 drainWait, rows, crashed>>

\* The socket hands its queued commands to the network. No write of the
\* client reaches the high-water mark, so no 'drain' event follows.
Flush(id) ==
  /\ ~crashed
  /\ sock[id] = "open"
  /\ unsent[id] > 0
  /\ unsent' = [unsent EXCEPT ![id] = 0]
  /\ UNCHANGED <<feedVars, parserVars, tcpClient, collecting, isConnected, stats,
                 sock, ended, written, drainWait, calls, dbQueue, rows,
                 lastBroadcast, crashed>>

\* Mutant of StopEffect: the socket is ended without looking at writableLength.
StopEffectEndsAtOnce ==
  IF tcpClient = 0
    THEN UNCHANGED <<collecting, ended, drainWait>>
    ELSE /\ collecting' = FALSE
         /\ ended' = [ended EXCEPT ![tcpClient] = TRUE]
         /\ UNCHANGED drainWait

\* stopTcpConnection: what it does to collecting, ended and drainWait.
StopEffect ==
  IF tcpClient = 0
    THEN UNCHANGED <<collecting, ended, drainWait>>
    ELSE /\ collecting' = FALSE
         /\ IF unsent[tcpClient] > 0
              THEN /\ drainWait' = drainWait \cup {tcpClient}
                   /\ UNCHANGED ended
              ELSE /\ ended' = [ended EXCEPT ![tcpClient] = TRUE]
                   /\ UNCHANGED drainWait

\* stopTcpConnection broadcasts a status when it ends the socket at once.
StopBroadcast ==
  IF tcpClient # 0 /\ unsent[tcpClient] = 0 THEN "status" ELSE lastBroadcast

\* stopTcpConnection
Stop ==
  /\ ~crashed
  /\ StopEffect
  /\ lastBroadcast' = StopBroadcast
  /\ UNCHANGED <<feedVars, parserVars, tcpClient, isConnected, stats, sock,
                 written, unsent, calls, dbQueue, rows, crashed>>

\* Mutant of Reset: totalMessages survives the reset.
ResetKeepsTotal ==
  /\ ~crashed
  /\ StopEffect
  /\ buffer' = <<>>
  /\ messageCount' = 0
  /\ stats' = [ZeroStats EXCEPT !.totalMessages = stats.totalMessages]
  /\ lastBroadcast' = "reset"
  /\ UNCHANGED <<feedVars, emitted, warnings, tcpClient, isConnected, sock,
                 written, unsent, calls, dbQueue, rows, crashed>>

\* resetConnection
Reset ==
  /\ ~crashed
  /\ StopEffect
  /\ buffer' = <<>>
  /\ messageCount' = 0
  /\ stats' = ZeroStats
  /\ lastBroadcast' = "reset"
  /\ UNCHANGED <<feedVars, emitted, warnings, tcpClient, isConnected, sock,
                 written, unsent, calls, dbQueue, rows, crashed>>

\* The 'close' handler of socket id, after the peer ended the connection or
\* after the socket was destroyed by an error. The socket is no longer
\* writable and its queue is gone.
Close(id) ==
  /\ ~crashed
  /\ sock[id] \in {"open", "errored"}
  /\ sock' = [sock EXCEPT ![id] = "closed"]
  /\ isConnected' = FALSE
  /\ collecting' = FALSE
  /\ lastBroadcast' = "status"
  /\ tcpClient' = 0
  /\ drainWait' = drainWait \ {id}
  /\ ended' = [ended EXCEPT ![id] = TRUE]
  /\ unsent' = [unsent EXCEPT ![id] = 0]
  /\ written' = [written EXCEPT ![id] = <<>>]
  /\ UNCHANGED <<feedVars, parserVars, stats, calls, dbQueue, rows, crashed>>

\* Mutant of Error: the handler leaves the socket reference in place.
ErrorKeepsSocket(id) ==
  /\ ~crashed
  /\ sock[id] \in {"connecting", "open"}
  /\ sock' = [sock EXCEPT ![id] = "errored"]
  /\ isConnected' = FALSE
  /\ collecting' = FALSE
  /\ stats' = [stats EXCEPT !.errors = @ + 1]
  /\ lastBroadcast' = "error"
  /\ drainWait' = drainWait \ {id}
  /\ ended' = [ended EXCEPT ![id] = TRUE]
  /\ unsent' = [unsent EXCEPT ![id] = 0]
  /\ written' = [written EXCEPT ![id] = <<>>]
  /\ UNCHANGED <<feedVars, parserVars, tcpClient, calls, dbQueue, rows, crashed>>

\* The 'error' handler of socket id. The socket is destroyed; its 'close'
\* event comes in a later phase of the event loop, so other events may be
\* handled in between.
Error(id) ==
  /\ ~crashed
  /\ sock[id] \in {"connecting", "open"}
  /\ sock' = [sock EXCEPT ![id] = "errored"]
  /\ isConnected' = FALSE
  /\ collecting' = FALSE
  /\ stats' = [stats EXCEPT !.errors = @ + 1]
  /\ lastBroadcast' = "error"
  /\ tcpClient' = 0
  /\ drainWait' = drainWait \ {id}
  /\ ended' = [ended EXCEPT ![id] = TRUE]
  /\ unsent' = [unsent EXCEPT ![id] = 0]
  /\ written' = [written EXCEPT ![id] = <<>>]
  /\ UNCHANGED <<feedVars, parserVars, calls, dbQueue, rows, crashed>>

ClientInitial ==
  /\ segs = <<>>
  /\ fed = 0
  /\ feeds = 0
  /\ buffer = <<>>
  /\ messageCount = 0
  /\ emitted = <<>>
  /\ warnings = 0
  /\ ClientInit

ClientNext ==
  \/ Start
  \/ \E id \in Sockets : Connect(id)
  \/ \E id \in Sockets, chunk \in ClientChunks : Data(id, chunk)
  \/ \E ok \in BOOLEAN : InsertDone(ok)
  \/ CountDone
  \/ \E id \in Sockets : Flush(id)
  \/ Stop
  \/ Reset
  \/ \E id \in Sockets : Close(id)
  \/ \E id \in Sockets : Error(id)

ClientSpec == ClientInitial /\ [][ClientNext]_vars

\* ------------------------------------------------------ length computations
\* A number below 2^40 is written as [lo, hi], lo below 2^24 and hi below
\* 2^16, standing for lo + 2^24 * hi. JavaScript holds such a number exactly.
\* bytes of the length fields decoded, and the numbers encoded
LengthBytes == {0, 1, 128, 255}
Lengths ==
  [lo : {0, 1, 255, 256, 65536, 16777215},
   hi : {0, 1, 127, 128, 255, 256, 65535}]

\* processBinaryMessage reads the length field of a six-byte header.
DecodeLength(t, b) ==
  /\ calc = NoCalc
  /\ LET header == <<t>> \o b
     IN calc' = [op |-> "decode", header |-> header,
                 lo |-> SizeLow(header), hi |-> SizeHigh(header)]
  /\ UNCHANGED <<segs, fed, feeds, parserVars, clientVars>>

\* num >>> 8 for num = [lo, hi]: ToUint32 keeps the low 32 bits of num, the
\* shift drops the low byte. The result is below 2^24.
ShiftRight8(num) == (num.hi % 256) * 65536 + num.lo \div 256

\* The bytes intToBytes writes for a number x below 2^24, k of them, most
\* significant first: bytes[i] = x & 0xff; x = x >>> 8, from the last index.
RECURSIVE LowBytes(_, _)
LowBytes(x, k) ==
  IF k = 0 THEN <<>> ELSE LowBytes(x \div 256, k - 1) \o <<x % 256>>

\* FragmentReconstructor.intToBytes(num, byteCount)
intToBytes(num, byteCount) ==
  IF byteCount = 0 THEN <<>>
  ELSE LowBytes(ShiftRight8(num), byteCount - 1) \o <<num.lo % 256>>

\* result << 8: the low 32 bits of result * 256, read as a signed integer.
ShiftLeft8(result) ==
  LET low24 == result % 16777216
  IN IF low24 >= 8388608 THEN (low24 - 16777216) * 256 ELSE low24 * 256

\* The loop of bytesToInt from an accumulated result.
RECURSIVE bytesToIntFrom(_, _)
bytesToIntFrom(result, bytes) ==
  IF bytes = <<>> THEN result
  ELSE bytesToIntFrom(ShiftLeft8(result) + Head(bytes), Tail(bytes))

\* FragmentReconstructor.bytesToInt(bytes)
bytesToInt(bytes) == bytesToIntFrom(0, bytes)

\* attemptReconstruction writes the size field of declaredSize; analyzeMessage
\* would read it back with bytesToInt.
RoundTrip(n) ==
  /\ calc = NoCalc
  /\ LET sizeBytes == intToBytes(n, 5)
     IN calc' = [op |-> "roundtrip", n |-> n, bytes |-> sizeBytes,
                 back |-> bytesToInt(sizeBytes)]
  /\ UNCHANGED <<segs, fed, feeds, parserVars, clientVars>>

LengthNext ==
  \/ \E t \in Tags, b \in [1..5 -> LengthBytes] : DecodeLength(t, b)
  \/ \E n \in Lengths : RoundTrip(n)

LengthSpec == ClientInitial /\ [][LengthNext]_vars

\* ================================================================== claims
AllFed == fed = Len(stream)
ValidStream == \A i \in 1..Len(segs) : IsRecord(segs[i])
SingleRecord == Len(segs) = 1 /\ IsRecord(segs[1])
Range(s) == {s[i] : i \in 1..Len(s)}

RECURSIVE IsSubseq(_, _)
IsSubseq(s, t) ==
  IF s = <<>> THEN TRUE
  ELSE IF t = <<>> THEN FALSE
  ELSE IF Head(s) = Head(t) THEN IsSubseq(Tail(s), Tail(t))
  ELSE IsSubseq(s, Tail(t))

\* C1 - chunking invariance: once a stream of valid records is fed completely,
\* in whatever chunks, the records emitted are those emitted when the same
\* stream is fed to a fresh parser as one chunk.
C1_ChunkingInvariance ==
  (ValidStream /\ AllFed) => emitted = parseMessages(stream, 0).messages

\* C2 - partial-arrival safety: a single valid record fed in two parts emits
\* nothing after the first part and exactly that record after the second.
C2_PartialArrival ==
  SingleRecord =>
    /\ (feeds = 1 /\ ~AllFed) => emitted = <<>>
    /\ (feeds = 2 /\ AllFed) => emitted = <<RecordOf(segs[1])>>

\* C3 - emission order: the records emitted appear in the order in which
\* they lie in the stream (the order their last bytes were received).
C3_EmissionOrder ==
  IsSubseq(SelectSeq(emitted, LAMBDA m : m \in Range(Records(segs))), Records(segs))

\* C4 - text round trip: "$p;" for a valid payload p, fed to an empty parser,
\* yields exactly one ascii record with payload p and leaves the buffer empty.
C4_TextRoundTrip ==
  (Len(segs) = 1 /\ segs[1].kind = "text" /\ AllFed) =>
    /\ Len(emitted) = 1
    /\ emitted[1].type = "ascii"
    /\ emitted[1].payload = segs[1].payload
    /\ buffer = <<>>

C4_Witness ==
  /\ Len(segs) = 1 /\ segs[1].kind = "text" /\ AllFed
  /\ segs[1].payload = <<32, 60, 126, 60, 32, 126>>
  /\ Len(emitted) = 1

\* C5 - binary round trip: tag 0xAA, the length field of n and n arbitrary
\* bytes, fed to an empty parser, yield exactly one binary record whose size
\* and payload length are n (and whose payload is those bytes).
C5_BinaryRoundTrip ==
  (Len(segs) = 1 /\ segs[1].kind = "binary" /\ segs[1].tag = TAG_AA
     /\ feeds = 1 /\ AllFed) =>
    /\ Len(emitted) = 1
    /\ emitted[1].type = "binary"
    /\ emitted[1].size = Len(segs[1].payload)
    /\ Len(emitted[1].payload) = Len(segs[1].payload)
    /\ emitted[1].payload = segs[1].payload

C5_Witness ==
  /\ Len(segs) = 1 /\ segs[1] = BinarySeg(TAG_AA, <<36, 59>>)
  /\ feeds = 1 /\ AllFed
  /\ Len(emitted) = 1 /\ emitted[1].size = 2

\* C6 - noise resynchronization: garbage followed by one valid record yields
\* exactly one record and exactly one reported framing error, and an empty
\* buffer.
C6_NoiseResync ==
  (Len(segs) = 2 /\ segs[1].kind = "noise" /\ IsRecord(segs[2]) /\ AllFed
     /\ feeds = 1) =>
    /\ Len(emitted) = 1
    /\ warnings = 1
    /\ Len(buffer) = 0

\* C7 - short-payload rejection: "$abcd;" yields a framing error and no
\* record, its six bytes leave the buffer, and a record that follows is parsed.
C7_ShortPayloadRejected ==
  (Len(segs) >= 1 /\ segs[1] = BadSeg(ShortText)) =>
    /\ fed = Len(ShortText) => (warnings >= 1 /\ emitted = <<>> /\ buffer = <<>>)
    /\ (Len(segs) = 2 /\ IsRecord(segs[2]) /\ AllFed /\ feeds = 1)
         => emitted = <<RecordOf(segs[2])>>

\* C8 - forward progress: once the whole stream has arrived, every valid
\* record lying after a malformed text record or after noise has been emitted.
C8_ForwardProgress ==
  (AllFed /\ feeds = 1) =>
    \A j \in 1..Len(segs) :
      (IsRecord(segs[j]) /\ \E i \in 1..(j - 1) : segs[i].kind \in {"bad", "noise"})
        => RecordOf(segs[j]) \in Range(emitted)

StatusCount(id) == Cardinality({i \in 1..Len(written[id]) : written[id][i] = "STATUS"})

\* C9 - threshold-triggered stop: no connection is ever written STATUS twice,
\* and a collecting client whose stored-record count has reached
\* targetMessageCount still has an invocation in flight: the first invocation
\* to end after the count is reached sends STATUS and clears collecting, so
\* later data arrivals and interleaved invocations send nothing.
C9_StatusOnce ==
  /\ \A id \in Sockets : StatusCount(id) <= 1
  /\ (collecting /\ stats.totalMessages >= TargetMessageCount) => dbQueue # <<>>

\* STATUS was sent on connection 1, and a later chunk has been handled and
\* stored on that connection, taking the count past the target.
C9_Witness ==
  /\ written[1] = <<"AUTH", "STATUS">>
  /\ tcpClient = 1
  /\ Len(calls) = 2
  /\ dbQueue = <<>>
  /\ stats.totalMessages > TargetMessageCount

\* C10 - storage order: the records stored appear in the order parseMessages
\* emitted them.
C10_StorageOrder ==
  \A i, j \in 1..Len(rows) : i < j => rows[i].seq < rows[j].seq

\* The handleTcpData invocations that still hold records not yet stored.
Backlog == Cardinality({c \in 1..Len(calls) : calls[c].msgs # <<>>})

\* C11 - backpressure: while the records of one chunk are still waiting for
\* storage the client reads no further chunk, so the unstored work never
\* exceeds the records of a single chunk.
C11_Backpressure == Backlog <= 1

C13_EndAfterDrain ==
  [][\A id \in Sockets :
       (~ended[id] /\ ended'[id] /\ sock'[id] \in {"connecting", "open"})
         => unsent[id] = 0]_vars

\* Connection 1 was ended by a stop after its AUTH command had left, while
\* STATUS or nothing else was queued.
C13_Witness ==
  /\ sock[1] = "open"
  /\ ended[1]
  /\ written[1] # <<>>
  /\ unsent[1] = 0

IsPrefix(s, t) == Len(s) <= Len(t) /\ s = SubSeq(t, 1, Len(s))

\* C14 - command ordering: on every connection the commands written are, in
\* order, one AUTH and then at most one STATUS: AUTH comes before anything
\* else and STATUS never comes before AUTH.
C14_CommandOrder ==
  \A id \in Sockets : IsPrefix(written[id], <<"AUTH", "STATUS">>)

\* C15 - stored binary integrity: every row appended to msgbinary has
\* size equal to the byte length of its payload.
C15_StoredBinaryIntegrity ==
  \A i \in 1..Len(rows) :
    rows[i].type = "binary" => rows[i].size = Len(rows[i].payload)

\* A binary record with a payload of one byte has been stored.
C15_Witness ==
  \E i \in 1..Len(rows) :
    rows[i].type = "binary" /\ rows[i].size = 1 /\ rows[i].payload = <<7>>

\* C16 - text record validity: every text record emitted has a payload of at
\* least five bytes, each of them printable and neither '$' nor ';', the
\* payload is the bytes that arrived on the wire, and "$" payload ";" parses
\* back to the same payload.
C16_TextRecordValidity ==
  \A i \in 1..Len(emitted) :
    emitted[i].type = "ascii" =>
      LET p == emitted[i].payload
          again == processAsciiMessage(EncodeText(p))
      IN /\ Len(p) >= MIN_ASCII_LEN - 2
         /\ \A k \in 1..Len(p) :
              p[k] \in PRINT_LO..PRINT_HI /\ p[k] \notin {DOLLAR, SEMI}
         /\ bufferIndexOf(SubSeq(stream, 1, fed), p) # 0
         /\ again.ok /\ again.msg.payload = p

\* C17 - truncated header pending: when the buffer, with the chunk just
\* added, starts with a tag and holds fewer than six bytes, parseMessages
\* emits nothing and leaves the buffer as it is, whatever the other bytes are.
C17_TruncatedHeaderPending ==
  [][LET added == buffer \o SubSeq(stream, fed + 1, fed')
     IN (added # <<>> /\ Len(added) < HEADER_LEN /\ added[1] \in Tags)
          => (buffer' = added /\ emitted' = emitted)]_vars

\* A tag followed by fewer than five bytes, a '$' among them, is waiting in
\* the buffer after two feeds.
C17_Witness ==
  /\ feeds >= 2
  /\ Len(buffer) \in 2..(HEADER_LEN - 1)
  /\ buffer[1] \in Tags
  /\ DOLLAR \in Range(buffer)
  /\ buffer = SubSeq(stream, 1, fed)

\* C18 - incomplete binary payload: while a binary record's six-byte header
\* is in the buffer and its payload has not fully arrived, parseMessages
\* emits nothing and removes no byte; once the rest has arrived the record is
\* emitted.
C18_IncompletePayloadWaits ==
  (Len(segs) = 1 /\ segs[1].kind = "binary" /\ fed >= HEADER_LEN) =>
    /\ ~AllFed => (emitted = <<>> /\ buffer = SubSeq(stream, 1, fed))
    /\ AllFed => emitted = <<RecordOf(segs[1])>>

\* C19 - cursor invariant: the buffer is a contiguous suffix of the bytes fed
\* since the parser was created: bytes leave it only at the front, none from
\* the middle, none rewritten.
C19_CursorInvariant ==
  Len(buffer) <= fed /\ buffer = SubSeq(stream, fed - Len(buffer) + 1, fed)

\* How often message m occurs in the sequence s.
Count(m, s) == Cardinality({i \in 1..Len(s) : s[i] = m})

\* C20 - no record from inside a binary payload: for a stream of valid
\* records, in any chunking, every record emitted is a record of the stream
\* and is emitted no more often than it occurs there; in particular the bytes
\* of a binary record's declared payload never yield a text record.
C20_NoRecordFromPayload ==
  ValidStream =>
    \A i \in 1..Len(emitted) :
      Count(emitted[i], emitted) <= Count(emitted[i], Records(segs))

\* STATUS has been written on a connection that is still open.
StatusSent ==
  \E id \in Sockets : sock[id] = "open" /\ "STATUS" \in Range(written[id])

\* Every invocation of handleTcpData that still holds records has a statement
\* of its own waiting in the database.
InStorage(cs, q) ==
  \A c \in 1..Len(cs) :
    cs[c].msgs # <<>> => \E k \in 1..Len(q) : q[k].call = c

\* C21 - draining after stop: once STATUS has been written on an open
\* connection, a further chunk is still fed to the parser (the step that
\* starts an invocation adds the chunk to the buffer, parses it and hands over
\* every record emitted), every record handed over stays on its way to
\* storage, and every row stored is counted.
C21_DrainingAfterStop ==
  [][StatusSent =>
       /\ Len(calls') > Len(calls) =>
            \E chunk \in ClientChunks :
              LET r == parseMessages(addData(buffer, chunk), messageCount)
              IN /\ buffer' = r.buffer
                 /\ emitted' = emitted \o r.messages
                 /\ Len(calls'[Len(calls')].msgs) = Len(r.messages)
       /\ InStorage(calls', dbQueue')
       /\ Len(rows') > Len(rows) =>
            stats'.totalMessages = stats.totalMessages + 1]_vars

\* STATUS went out on connection 1 after the target was reached, and a record
\* emitted from a later chunk has been stored and counted.
C21_Witness ==
  /\ sock[1] = "open"
  /\ written[1] = <<"AUTH", "STATUS">>
  /\ ~collecting
  /\ \E i \in 1..Len(rows) : rows[i].seq > TargetMessageCount
  /\ stats.totalMessages = Len(rows)
  /\ stats.totalMessages > TargetMessageCount

\* The client with a peer that never closes the connection and a transport
\* that never fails: no 'close' and no 'error' event.
DrainNext ==
  \/ Start
  \/ \E id \in Sockets : Connect(id)
  \/ \E id \in Sockets, chunk \in ClientChunks : Data(id, chunk)
  \/ \E ok \in BOOLEAN : InsertDone(ok)
  \/ CountDone
  \/ \E id \in Sockets : Flush(id)
  \/ Stop
  \/ Reset

\* Whatever the event loop has to do is done eventually.
DrainSpec == ClientInitial /\ [][DrainNext]_vars /\ WF_vars(DrainNext)

\* C22 - bounded drain: once STATUS has been written the client eventually
\* is disconnected (tcpClient null), even though the peer never closes.
C22_BoundedDrain == StatusSent ~> (tcpClient = 0)

\* The step completes the insert at the head of the database queue without
\* storing a row: the database rejected it.
InsertRejected ==
  /\ dbQueue # <<>>
  /\ Head(dbQueue).kind = "insert"
  /\ Len(calls') = Len(calls)
  /\ calls'[Head(dbQueue).call].msgs # calls[Head(dbQueue).call].msgs
  /\ rows' = rows

\* C23 - storage error handling: when the database rejects the insert of a
\* record, errors grows by one, totalMessages, asciiMessages and
\* binaryMessages stay as they are, the parser is not touched, and the
\* records that remain, of this chunk and of the others, are still on their
\* way to storage.
C23_StorageError ==
  [][InsertRejected =>
       /\ stats'.errors = stats.errors + 1
       /\ stats'.totalMessages = stats.totalMessages
       /\ stats'.asciiMessages = stats.asciiMessages
       /\ stats'.binaryMessages = stats.binaryMessages
       /\ buffer' = buffer
       /\ messageCount' = messageCount
       /\ InStorage(calls', dbQueue')]_vars

\* The insert of record 1 was rejected; record 2, of the same chunk, and a
\* record of a later chunk have been stored and counted.
C23_Witness ==
  /\ Failures = 1
  /\ stats.errors = 1
  /\ Len(rows) >= 2
  /\ rows[1].seq = 2
  /\ \E i \in 1..Len(rows) : rows[i].seq > 2
  /\ stats.totalMessages = Len(rows)

\* C24 - length decoding: the size processBinaryMessage computes from a
\* header is the number whose base-256 digits, least significant first, are
\* bytes 1..5 of the header, for both tags and up to 2^40 - 1.
C24_LengthDecoding ==
  calc.op = "decode" =>
    LET h == calc.header
    IN /\ h[1] \in Tags
       /\ calc.lo \in 0..16777215
       /\ calc.hi \in 0..65535
       /\ h[2] = calc.lo % 256
       /\ h[3] = (calc.lo \div 256) % 256
       /\ h[4] = calc.lo \div 65536
       /\ h[5] = calc.hi % 256
       /\ h[6] = calc.hi \div 256

\* The header BB FF FF FF FF FF was decoded to 2^40 - 1.
C24_Witness ==
  /\ calc.op = "decode"
  /\ calc.header = <<TAG_BB, 255, 255, 255, 255, 255>>
  /\ calc.lo = 16777215
  /\ calc.hi = 65535

\* The integer x is the number n = [lo, hi]; an integer of the checker is
\* below 2^31.
IsNumber(x, n) == n.hi < 128 /\ x = n.hi * 16777216 + n.lo

\* C30 - length-field round trip in the fragment reconstructor: for every n
\* below 2^40, bytesToInt(intToBytes(n, 5)) = n.
C30_LengthRoundTrip ==
  calc.op = "roundtrip" => IsNumber(calc.back, calc.n)

\* C25 - session counter isolation: the counters of a session count only
\* records parsed from bytes of its own connection; while the new connection
\* is still being set up, and so has delivered no byte, they are zero.
C25_SessionCounters ==
  (tcpClient # 0 /\ sock[tcpClient] = "connecting") =>
    /\ stats.totalMessages = 0
    /\ stats.asciiMessages = 0
    /\ stats.binaryMessages = 0

\* C26 - statistics consistency: whenever control is back in the event loop,
\* totalMessages = asciiMessages + binaryMessages.
C26_StatisticsConsistency ==
  stats.totalMessages = stats.asciiMessages + stats.binaryMessages

\* One text record and one binary record are counted, one insert was
\* rejected, and other inserts are still pending.
C26_Witness ==
  /\ stats.asciiMessages = 1
  /\ stats.binaryMessages = 1
  /\ stats.totalMessages = 2
  /\ stats.errors = 1
  /\ dbQueue # <<>>

\* C27 - reset: after resetConnection has completed on an open connection,
\* and as long as nothing has been broadcast since (so no start has been
\* honoured), the parser buffer is empty, messageCount is 0 and every counter
\* is 0, whatever the peer sends.
C27_ResetStaysZero ==
  (tcpClient # 0 /\ sock[tcpClient] = "open" /\ lastBroadcast = "reset") =>
    /\ buffer = <<>>
    /\ messageCount = 0
    /\ stats = ZeroStats

\* Every pass of the while loop of parseMessages, started from st, either
\* leaves the loop or leaves a strictly shorter buffer.
RECURSIVE EveryPassProgresses(_)
EveryPassProgresses(st) ==
  IF Len(st.buffer) = 0 \/ st.done THEN TRUE
  ELSE LET nxt == ParseStep(st)
       IN /\ nxt.done \/ Len(nxt.buffer) < Len(st.buffer)
          /\ EveryPassProgresses(nxt)

\* C28 - parseMessages terminates: whatever the buffer holds and whatever
\* chunk arrives next, every iteration of the loop strictly shortens the
\* buffer or breaks.
C28_ParseTerminates ==
  \A k \in 1..(Len(stream) - fed) :
    EveryPassProgresses([buffer |-> addData(buffer, SubSeq(stream, fed + 1, fed + k)),
                         messages |-> <<>>, messageCount |-> messageCount,
                         warnings |-> 0, done |-> FALSE])

\* A call that skipped noise, extracted a record, then hit a malformed record
\* and broke out of the loop with bytes left.
C28_Witness ==
  /\ feeds = 1
  /\ AllFed
  /\ Len(emitted) = 1
  /\ warnings = 1
  /\ buffer # <<>>
  /\ segs[1].kind = "noise"

\* The stream consists of text records only.
TextOnly == Len(segs) >= 1 /\ \A i \in 1..Len(segs) : segs[i].kind = "text"

\* The number of leading segments of ss that lie entirely in the first n bytes.
RECURSIVE Whole(_, _)
Whole(ss, n) ==
  IF ss = <<>> \/ Len(Encode(Head(ss))) > n THEN 0
  ELSE 1 + Whole(Tail(ss), n - Len(Encode(Head(ss))))

\* C29 - text-only streams are chunking-safe: however the stream is cut into
\* chunks, the records emitted so far are exactly the payloads of the records
\* whose ';' has arrived, in stream order, and the bytes of an unterminated
\* record are retained unchanged.
C29_TextChunkingSafe ==
  TextOnly =>
    LET k == Whole(segs, fed)
        whole == SubSeq(segs, 1, k)
    IN /\ emitted = Records(whole)
       /\ buffer = SubSeq(stream, Len(Flatten(whole)) + 1, fed)

\* Two text records fed in three chunks: the first record is out, the second
\* is held without its ';'.
C29_Witness ==
  /\ TextOnly
  /\ Len(segs) = 2
  /\ feeds = 3
  /\ Len(emitted) = 1
  /\ buffer # <<>>
  /\ ~AllFed

====
